---------------------------- MODULE Spec2Model ----------------------------
(***************************************************************************)
(* Chrome SNSS session-log decoder of open_tab_tracker (ChromeSession.py)  *)
(* and the tab counter built on it (browsers/Chrome.py).                   *)
(*                                                                         *)
(* A byte is an integer 0..255, a byte string a sequence of bytes.  A      *)
(* Python str is the sequence of its code points.  A dict is the sequence  *)
(* of its values in insertion order (the order Python iterates it in).     *)
(* A 64-bit integer is kept as its 8 little-endian bytes; the 32-bit       *)
(* values of the inputs stay below 2^31.                                   *)
(***************************************************************************)
EXTENDS Integers, Sequences, FiniteSets, TLC

VARIABLES
    log,            \* the commands the session file was written from (input)
    fh,             \* the bytes of the session file; <<>> when there is none
    found,          \* whether get_chrome_session_file finds a session file
    pos,            \* fh.tell(): the number of bytes read so far
    pc,             \* where get_tab_count / parse stands
    tabs,           \* parse: tabs.values()
    windows,        \* parse: windows.values()
    groups,         \* parse: groups, as (key, Group) in insertion order
    active_window,  \* parse: the id of active_window, or None
    result,         \* what parse returned: NoResult until it returns
    count           \* what Chrome.get_tab_count returned: None until it returns

vars == <<log, fh, found, pos, pc, tabs, windows, groups, active_window,
          result, count>>

---------------------------------------------------------------------------
(* Command constants.                                                      *)

COMMAND_UPDATE_TAB_NAVIGATION == 6
COMMAND_SET_SELECTED_TAB_IN_INDEX == 8
COMMAND_SET_TAB_WINDOW == 0
COMMAND_SET_TAB_GROUP == 25
COMMAND_SET_TAB_GROUP_METADATA2 == 27
COMMAND_SET_SELECTED_NAVIGATION_INDEX == 7
COMMAND_TAB_CLOSED == 16
COMMAND_WINDOW_CLOSED == 17
COMMAND_SET_TAB_INDEX_IN_WINDOW == 2
COMMAND_SET_ACTIVE_WINDOW == 20
COMMAND_LAST_ACTIVE_TIME == 21

None == -1

NoResult == [none |-> TRUE]

---------------------------------------------------------------------------
(* Byte strings.                                                           *)

Min(a, b) == IF a <= b THEN a ELSE b

\* s[:n]
Take(s, n) == SubSeq(s, 1, Min(n, Len(s)))

\* s[n:]
Drop(s, n) == SubSeq(s, n + 1, Len(s))

\* io: read(n) at offset p of the buffer d returns the bytes that are there,
\* at most n of them, and all the rest when n is negative.
Read(d, p, n) ==
    IF n < 0 THEN Drop(d, p) ELSE SubSeq(d, p + 1, Min(p + n, Len(d)))

\* struct.unpack('<B' | '<H' | '<I', b): the little-endian value of b.
RECURSIVE LittleEndian(_)
LittleEndian(b) ==
    IF b = <<>> THEN 0 ELSE b[1] + 256 * LittleEndian(Tail(b))

\* A reader is [data, at]: an io buffer and its cursor.  Every read_*
\* returns [ok, val, at]: ok is FALSE when the read raised.
Raised == [ok |-> FALSE, val |-> 0, at |-> 0]

ReadFixed(data, at, n) ==
    LET b == Read(data, at, n)
    IN  IF Len(b) # n THEN Raised
        ELSE [ok |-> TRUE, val |-> LittleEndian(b), at |-> at + n]

read_uint8(data, at) == ReadFixed(data, at, 1)

read_uint16(data, at) == ReadFixed(data, at, 2)

read_uint32(data, at) == ReadFixed(data, at, 4)

\* The value is kept as its 8 bytes, least significant first.
read_uint64(data, at) ==
    LET b == Read(data, at, 8)
    IN  IF Len(b) # 8 THEN Raised
        ELSE [ok |-> TRUE, val |-> b, at |-> at + 8]

\* bytes.decode('utf-8'): the code points, or <<-1>> when decoding raises.
DecodeError == <<-1>>

IsCont(b) == b >= 128 /\ b <= 191

RECURSIVE Utf8Decode(_)
Utf8Decode(b) ==
    IF b = <<>> THEN <<>>
    ELSE
      LET c == b[1]
          n == IF c <= 127 THEN 1
               ELSE IF c >= 194 /\ c <= 223 THEN 2
               ELSE IF c >= 224 /\ c <= 239 THEN 3
               ELSE IF c >= 240 /\ c <= 244 THEN 4
               ELSE 0
          wellFormed ==
               /\ n > 0
               /\ Len(b) >= n
               /\ \A i \in 2..n : IsCont(b[i])
               /\ (c = 224 => b[2] >= 160)
               /\ (c = 237 => b[2] <= 159)
               /\ (c = 240 => b[2] >= 144)
               /\ (c = 244 => b[2] <= 143)
          cp == IF n = 1 THEN c
                ELSE IF n = 2 THEN (c - 192) * 64 + (b[2] - 128)
                ELSE IF n = 3 THEN (c - 224) * 4096 + (b[2] - 128) * 64
                                   + (b[3] - 128)
                ELSE (c - 240) * 262144 + (b[2] - 128) * 4096
                     + (b[3] - 128) * 64 + (b[4] - 128)
      IN  IF ~wellFormed THEN DecodeError
          ELSE LET rest == Utf8Decode(Drop(b, n))
               IN  IF rest = DecodeError THEN DecodeError ELSE <<cp>> \o rest

PadTo4(n) == IF n % 4 # 0 THEN n + (4 - (n % 4)) ELSE n

read_string(data, at) ==
    LET sz == read_uint32(data, at)
    IN  IF ~sz.ok THEN Raised
        ELSE
          LET size      == sz.val
              read_size == PadTo4(size)
              bytes     == Read(data, sz.at, read_size)
              str       == Utf8Decode(Take(bytes, size))
          IN  IF str = DecodeError THEN Raised
              ELSE [ok |-> TRUE, val |-> str, at |-> sz.at + Len(bytes)]

\* read_string16 without its length test: it takes the units that are there.
read_string16Lenient(data, at) ==
    LET sz == read_uint32(data, at)
    IN  IF ~sz.ok THEN Raised
        ELSE
          LET size      == sz.val
              read_size == PadTo4(size * 2)
              bytes     == Read(data, sz.at, read_size)
          IN  [ok  |-> TRUE,
               val |-> [i \in 1..Min(size, Len(bytes) \div 2) |->
                          bytes[2 * i] * 256 + bytes[2 * i - 1]],
               at  |-> sz.at + Len(bytes)]

read_string16(data, at) ==
    LET sz == read_uint32(data, at)
    IN  IF ~sz.ok THEN Raised
        ELSE
          LET size      == sz.val
              read_size == PadTo4(size * 2)
              bytes     == Read(data, sz.at, read_size)
          IN  IF Len(bytes) # read_size THEN Raised
              ELSE [ok  |-> TRUE,
                    val |-> [i \in 1..size |->
                               bytes[2 * i] * 256 + bytes[2 * i - 1]],
                    at  |-> sz.at + read_size]

---------------------------------------------------------------------------
(* The state store: get_window, get_group, get_tab.                        *)

HasId(s, id) == \E i \in DOMAIN s : s[i].id = id

IdxOf(s, id) == CHOOSE i \in DOMAIN s : s[i].id = id

NoGroup == <<>>

Tab(id) ==
    [id |-> id, history |-> <<>>, idx |-> 0, win |-> 0, deleted |-> FALSE,
     current_history_idx |-> 0, group |-> NoGroup]

Window(id) ==
    [id |-> id, active_tab_idx |-> 0, deleted |-> FALSE, tabs |-> <<>>]

HistoryItem(idx) == [idx |-> idx, url |-> <<>>, title |-> <<>>]

\* get_window keeping the windows in the order of their ids.
get_windowSorted(ws, id) ==
    IF HasId(ws, id) THEN ws
    ELSE LET k == Cardinality({i \in DOMAIN ws : ws[i].id < id})
         IN  SubSeq(ws, 1, k) \o <<Window(id)>> \o SubSeq(ws, k + 1, Len(ws))

get_window(ws, id) == IF HasId(ws, id) THEN ws ELSE Append(ws, Window(id))

\* get_tab making a new tab at every reference.
get_tabDuplicating(ts, id) == Append(ts, Tab(id))

get_tab(ts, id) == IF HasId(ts, id) THEN ts ELSE Append(ts, Tab(id))

\* f"{v:x}" of a 64-bit value given as its 8 little-endian bytes: the hex
\* digits, most significant first, without leading zeros.
Nibbles(v) ==
    [k \in 1..16 |->
        LET byte == v[8 - ((k - 1) \div 2)]
        IN  IF k % 2 = 1 THEN byte \div 16 ELSE byte % 16]

RECURSIVE StripZeros(_)
StripZeros(s) ==
    IF Len(s) > 1 /\ s[1] = 0 THEN StripZeros(Tail(s)) ELSE s

HexStr(v) == StripZeros(Nibbles(v))

\* key = f"{high:x}{low:x}"
GroupKey(high, low) == HexStr(high) \o HexStr(low)

HasKey(gs, key) == \E i \in DOMAIN gs : gs[i].key = key

KeyIdx(gs, key) == CHOOSE i \in DOMAIN gs : gs[i].key = key

get_group(gs, high, low) ==
    IF HasKey(gs, GroupKey(high, low)) THEN gs
    ELSE Append(gs, [key |-> GroupKey(high, low), high |-> high,
                     low |-> low, name |-> <<>>])

---------------------------------------------------------------------------
(* The command handlers of parse's loop.  A store is                       *)
(* [tabs, windows, groups, active_window]; a handler returns [ok, st],     *)
(* ok FALSE when a read of a field raised (the store is then dropped).     *)

Failed(st) == [ok |-> FALSE, st |-> st]

Done(st) == [ok |-> TRUE, st |-> st]

\* UpdateTabNavigation appending an item for every record.
UpdateTabNavigationAppending(st, data) ==
    LET r0 == read_uint32(data, 0)
        r1 == read_uint32(data, r0.at)
        r2 == read_uint32(data, r1.at)
        r3 == read_string(data, r2.at)
        r4 == read_string16(data, r3.at)
    IN  IF ~r0.ok THEN Failed(st)
        ELSE IF ~r1.ok THEN Failed(st)
        ELSE IF ~r2.ok THEN Failed(st)
        ELSE IF ~r3.ok THEN Failed(st)
        ELSE IF ~r4.ok THEN Failed(st)
        ELSE
          LET ts == get_tab(st.tabs, r1.val)
              i  == IdxOf(ts, r1.val)
              h2 == Append(ts[i].history,
                           [idx |-> r2.val, url |-> r3.val, title |-> r4.val])
          IN  Done([st EXCEPT !.tabs = [ts EXCEPT ![i].history = h2]])

UpdateTabNavigation(st, data) ==
    LET r0 == read_uint32(data, 0)
        r1 == read_uint32(data, r0.at)
        r2 == read_uint32(data, r1.at)
        r3 == read_string(data, r2.at)
        r4 == read_string16(data, r3.at)
    IN  IF ~r0.ok THEN Failed(st)
        ELSE IF ~r1.ok THEN Failed(st)
        ELSE IF ~r2.ok THEN Failed(st)
        ELSE IF ~r3.ok THEN Failed(st)
        ELSE IF ~r4.ok THEN Failed(st)
        ELSE
          LET ts   == get_tab(st.tabs, r1.val)
              i    == IdxOf(ts, r1.val)
              h    == ts[i].history
              have == \E j \in DOMAIN h : h[j].idx = r2.val
              h1   == IF have THEN h ELSE Append(h, HistoryItem(r2.val))
              j    == CHOOSE k \in DOMAIN h1 :
                         /\ h1[k].idx = r2.val
                         /\ \A m \in 1..(k - 1) : h1[m].idx # r2.val
              h2   == [h1 EXCEPT ![j].url = r3.val, ![j].title = r4.val]
          IN  Done([st EXCEPT !.tabs = [ts EXCEPT ![i].history = h2]])

SetSelectedTabInIndex(st, data) ==
    LET r0 == read_uint32(data, 0)
        r1 == read_uint32(data, r0.at)
    IN  IF ~r0.ok THEN Failed(st)
        ELSE IF ~r1.ok THEN Failed(st)
        ELSE
          LET ws == get_window(st.windows, r0.val)
              i  == IdxOf(ws, r0.val)
          IN  Done([st EXCEPT
                      !.windows = [ws EXCEPT ![i].active_tab_idx = r1.val]])

SetTabGroupMetadata2(st, data) ==
    LET r0 == read_uint32(data, 0)
        r1 == read_uint64(data, r0.at)
        r2 == read_uint64(data, r1.at)
        r3 == read_string16(data, r2.at)
    IN  IF ~r0.ok THEN Failed(st)
        ELSE IF ~r1.ok THEN Failed(st)
        ELSE IF ~r2.ok THEN Failed(st)
        ELSE IF ~r3.ok THEN Failed(st)
        ELSE
          LET gs == get_group(st.groups, r1.val, r2.val)
              i  == KeyIdx(gs, GroupKey(r1.val, r2.val))
          IN  Done([st EXCEPT !.groups = [gs EXCEPT ![i].name = r3.val]])

SetTabGroup(st, data) ==
    LET r0 == read_uint32(data, 0)
        r1 == read_uint32(data, r0.at)
        r2 == read_uint64(data, r1.at)
        r3 == read_uint64(data, r2.at)
    IN  IF ~r0.ok THEN Failed(st)
        ELSE IF ~r1.ok THEN Failed(st)
        ELSE IF ~r2.ok THEN Failed(st)
        ELSE IF ~r3.ok THEN Failed(st)
        ELSE
          LET ts == get_tab(st.tabs, r0.val)
              i  == IdxOf(ts, r0.val)
          IN  Done([st EXCEPT
                      !.tabs   = [ts EXCEPT
                                    ![i].group = GroupKey(r2.val, r3.val)],
                      !.groups = get_group(st.groups, r2.val, r3.val)])

\* SetTabWindow creating the window it names.
SetTabWindowCreating(st, data) ==
    LET r0 == read_uint32(data, 0)
        r1 == read_uint32(data, r0.at)
    IN  IF ~r0.ok THEN Failed(st)
        ELSE IF ~r1.ok THEN Failed(st)
        ELSE
          LET ts == get_tab(st.tabs, r1.val)
              i  == IdxOf(ts, r1.val)
          IN  Done([st EXCEPT !.tabs = [ts EXCEPT ![i].win = r0.val],
                              !.windows = get_window(st.windows, r0.val)])

SetTabWindow(st, data) ==
    LET r0 == read_uint32(data, 0)
        r1 == read_uint32(data, r0.at)
    IN  IF ~r0.ok THEN Failed(st)
        ELSE IF ~r1.ok THEN Failed(st)
        ELSE
          LET ts == get_tab(st.tabs, r1.val)
              i  == IdxOf(ts, r1.val)
          IN  Done([st EXCEPT !.tabs = [ts EXCEPT ![i].win = r0.val]])

WindowClosed(st, data) ==
    LET r0 == read_uint32(data, 0)
    IN  IF ~r0.ok THEN Failed(st)
        ELSE
          LET ws == get_window(st.windows, r0.val)
              i  == IdxOf(ws, r0.val)
          IN  Done([st EXCEPT !.windows = [ws EXCEPT ![i].deleted = TRUE]])

\* TabClosed flipping the flag: a second TabClosed opens the tab again.
TabClosedToggling(st, data) ==
    LET r0 == read_uint32(data, 0)
    IN  IF ~r0.ok THEN Failed(st)
        ELSE
          LET ts == get_tab(st.tabs, r0.val)
              i  == IdxOf(ts, r0.val)
          IN  Done([st EXCEPT !.tabs = [ts EXCEPT ![i].deleted = ~@]])

TabClosed(st, data) ==
    LET r0 == read_uint32(data, 0)
    IN  IF ~r0.ok THEN Failed(st)
        ELSE
          LET ts == get_tab(st.tabs, r0.val)
              i  == IdxOf(ts, r0.val)
          IN  Done([st EXCEPT !.tabs = [ts EXCEPT ![i].deleted = TRUE]])

SetTabIndexInWindow(st, data) ==
    LET r0 == read_uint32(data, 0)
        r1 == read_uint32(data, r0.at)
    IN  IF ~r0.ok THEN Failed(st)
        ELSE IF ~r1.ok THEN Failed(st)
        ELSE
          LET ts == get_tab(st.tabs, r0.val)
              i  == IdxOf(ts, r0.val)
          IN  Done([st EXCEPT !.tabs = [ts EXCEPT ![i].idx = r1.val]])

\* SetActiveWindow keeping the window that is active already.
SetActiveWindowFirst(st, data) ==
    LET r0 == read_uint32(data, 0)
    IN  IF ~r0.ok THEN Failed(st)
        ELSE Done([st EXCEPT !.windows = get_window(st.windows, r0.val),
                             !.active_window =
                                 IF @ = None THEN r0.val ELSE @])

SetActiveWindow(st, data) ==
    LET r0 == read_uint32(data, 0)
    IN  IF ~r0.ok THEN Failed(st)
        ELSE Done([st EXCEPT !.windows = get_window(st.windows, r0.val),
                             !.active_window = r0.val])

SetSelectedNavigationIndex(st, data) ==
    LET r0 == read_uint32(data, 0)
        r1 == read_uint32(data, r0.at)
    IN  IF ~r0.ok THEN Failed(st)
        ELSE IF ~r1.ok THEN Failed(st)
        ELSE
          LET ts == get_tab(st.tabs, r0.val)
              i  == IdxOf(ts, r0.val)
          IN  Done([st EXCEPT
                      !.tabs = [ts EXCEPT ![i].current_history_idx = r1.val]])

\* Dispatch raising on a type it does not handle.
DispatchStrict(st, cmd_type, data) ==
    IF cmd_type = COMMAND_UPDATE_TAB_NAVIGATION
        THEN UpdateTabNavigation(st, data)
    ELSE IF cmd_type = COMMAND_SET_SELECTED_TAB_IN_INDEX
        THEN SetSelectedTabInIndex(st, data)
    ELSE IF cmd_type = COMMAND_SET_TAB_GROUP_METADATA2
        THEN SetTabGroupMetadata2(st, data)
    ELSE IF cmd_type = COMMAND_SET_TAB_GROUP
        THEN SetTabGroup(st, data)
    ELSE IF cmd_type = COMMAND_SET_TAB_WINDOW
        THEN SetTabWindow(st, data)
    ELSE IF cmd_type = COMMAND_WINDOW_CLOSED
        THEN WindowClosed(st, data)
    ELSE IF cmd_type = COMMAND_TAB_CLOSED
        THEN TabClosed(st, data)
    ELSE IF cmd_type = COMMAND_SET_TAB_INDEX_IN_WINDOW
        THEN SetTabIndexInWindow(st, data)
    ELSE IF cmd_type = COMMAND_SET_ACTIVE_WINDOW
        THEN SetActiveWindow(st, data)
    ELSE IF cmd_type = COMMAND_SET_SELECTED_NAVIGATION_INDEX
        THEN SetSelectedNavigationIndex(st, data)
    ELSE Failed(st)

\* The if / elif chain on cmd_type: a type no branch names changes nothing.
Dispatch(st, cmd_type, data) ==
    IF cmd_type = COMMAND_UPDATE_TAB_NAVIGATION
        THEN UpdateTabNavigation(st, data)
    ELSE IF cmd_type = COMMAND_SET_SELECTED_TAB_IN_INDEX
        THEN SetSelectedTabInIndex(st, data)
    ELSE IF cmd_type = COMMAND_SET_TAB_GROUP_METADATA2
        THEN SetTabGroupMetadata2(st, data)
    ELSE IF cmd_type = COMMAND_SET_TAB_GROUP
        THEN SetTabGroup(st, data)
    ELSE IF cmd_type = COMMAND_SET_TAB_WINDOW
        THEN SetTabWindow(st, data)
    ELSE IF cmd_type = COMMAND_WINDOW_CLOSED
        THEN WindowClosed(st, data)
    ELSE IF cmd_type = COMMAND_TAB_CLOSED
        THEN TabClosed(st, data)
    ELSE IF cmd_type = COMMAND_SET_TAB_INDEX_IN_WINDOW
        THEN SetTabIndexInWindow(st, data)
    ELSE IF cmd_type = COMMAND_SET_ACTIVE_WINDOW
        THEN SetActiveWindow(st, data)
    ELSE IF cmd_type = COMMAND_SET_SELECTED_NAVIGATION_INDEX
        THEN SetSelectedNavigationIndex(st, data)
    ELSE Done(st)

---------------------------------------------------------------------------
(* Materialization: what parse does once the loop has ended.               *)

\* list.sort(key=lambda x: x.idx): stable, ascending by idx.
InsertByIdx(sorted, x) ==
    LET k == Cardinality({i \in DOMAIN sorted : sorted[i].idx <= x.idx})
    IN  SubSeq(sorted, 1, k) \o <<x>> \o SubSeq(sorted, k + 1, Len(sorted))

RECURSIVE SortByIdx(_)
SortByIdx(s) ==
    IF s = <<>> THEN <<>>
    ELSE InsertByIdx(SortByIdx(SubSeq(s, 1, Len(s) - 1)), s[Len(s)])

\* for tab in tabs.values(): tab.history.sort(key=lambda x: x.idx)
SortHistories(ts) ==
    [i \in DOMAIN ts |-> [ts[i] EXCEPT !.history = SortByIdx(@)]]

\* for tab in tabs.values(): get_window(tab.win).tabs.append(tab)
RECURSIVE AssignTabs(_, _)
AssignTabs(ws, ts) ==
    IF ts = <<>> THEN ws
    ELSE LET tab == Head(ts)
             ws1 == get_window(ws, tab.win)
             i   == IdxOf(ws1, tab.win)
         IN  AssignTabs([ws1 EXCEPT ![i].tabs = Append(@, tab)], Tail(ts))

\* for window in windows.values(): window.tabs.sort(key=lambda x: x.idx)
SortTabs(ws) ==
    [i \in DOMAIN ws |-> [ws[i] EXCEPT !.tabs = SortByIdx(@)]]

\* "Sort and organize the final data structures": the windows with their
\* tabs.
Organize(ws, ts) == SortTabs(AssignTabs(ws, SortHistories(ts)))

\* ResultHistory without the break: the whole history.
ResultHistoryNoBreak(history, current_history_idx) ==
    [j \in DOMAIN history |->
        [url |-> history[j].url, title |-> history[j].title]]

\* The inner for loop over tab.history, with its break on the match.
RECURSIVE ResultHistory(_, _)
ResultHistory(history, current_history_idx) ==
    IF history = <<>> THEN <<>>
    ELSE LET hist == Head(history)
             item == [url |-> hist.url, title |-> hist.title]
         IN  IF hist.idx = current_history_idx THEN <<item>>
             ELSE <<item>> \o ResultHistory(Tail(history), current_history_idx)

HasCurrent(tab) ==
    \E j \in DOMAIN tab.history : tab.history[j].idx = tab.current_history_idx

Current(tab) ==
    tab.history[CHOOSE j \in DOMAIN tab.history :
                   /\ tab.history[j].idx = tab.current_history_idx
                   /\ \A m \in 1..(j - 1) :
                         tab.history[m].idx # tab.current_history_idx]

GroupName(gs, tab) ==
    IF tab.group = NoGroup THEN <<>> ELSE gs[KeyIdx(gs, tab.group)].name

ActiveTab(idx, window, tab) == idx = window.active_tab_idx

ResultTab(gs, window, tab, idx) ==
    [active  |-> ActiveTab(idx, window, tab),
     deleted |-> tab.deleted,
     group   |-> GroupName(gs, tab),
     history |-> ResultHistory(tab.history, tab.current_history_idx),
     url     |-> IF HasCurrent(tab) THEN Current(tab).url ELSE <<>>,
     title   |-> IF HasCurrent(tab) THEN Current(tab).title ELSE <<>>]

\* ResultTabs with idx counting every tab, deleted or not.
RECURSIVE ResultTabsCountingAll(_, _, _, _)
ResultTabsCountingAll(gs, window, ts, idx) ==
    IF ts = <<>> THEN <<>>
    ELSE <<ResultTab(gs, window, Head(ts), idx)>>
         \o ResultTabsCountingAll(gs, window, Tail(ts), idx + 1)

\* The loop over window.tabs; idx is the counter of the tabs not deleted.
RECURSIVE ResultTabs(_, _, _, _)
ResultTabs(gs, window, ts, idx) ==
    IF ts = <<>> THEN <<>>
    ELSE LET tab == Head(ts)
         IN  <<ResultTab(gs, window, tab, idx)>>
             \o ResultTabs(gs, window, Tail(ts),
                           IF ~tab.deleted THEN idx + 1 ELSE idx)

ResultWindow(gs, window, active) ==
    [tabs    |-> ResultTabs(gs, window, window.tabs, 0),
     active  |-> (active # None /\ window.id = active),
     deleted |-> window.deleted]

Result(gs, ws, active) ==
    [windows |-> [i \in DOMAIN ws |-> ResultWindow(gs, ws[i], active)]]

\* Chrome.get_tab_count: the loops over data.windows and window.tabs.
RECURSIVE CountTabs(_)
CountTabs(ts) ==
    IF ts = <<>> THEN 0
    ELSE (IF ~Head(ts).deleted THEN 1 ELSE 0) + CountTabs(Tail(ts))

\* total_tabs counting the tabs of deleted windows too.
RECURSIVE total_tabsAllWindows(_)
total_tabsAllWindows(ws) ==
    IF ws = <<>> THEN 0
    ELSE CountTabs(Head(ws).tabs) + total_tabsAllWindows(Tail(ws))

RECURSIVE total_tabs(_)
total_tabs(ws) ==
    IF ws = <<>> THEN 0
    ELSE (IF ~Head(ws).deleted THEN CountTabs(Head(ws).tabs) ELSE 0)
         + total_tabs(Tail(ws))

---------------------------------------------------------------------------
(* The steps of Chrome.get_tab_count: get_chrome_session_file, then parse  *)
(* (the header, one turn of the command loop at a time, the                *)
(* materialization), then the count.                                       *)

Magic == <<83, 78, 83, 83>>          \* b'SNSS'

Versions == {1, 3}

Store == [tabs |-> tabs, windows |-> windows, groups |-> groups,
          active_window |-> active_window]

\* get_chrome_session_file raises when it finds no session file.
GetSessionFile ==
    /\ pc = "start"
    /\ pc' = IF found THEN "header" ELSE "error"
    /\ UNCHANGED <<log, fh, found, pos, tabs, windows, groups, active_window,
                   result, count>>

\* HeaderOk looking at the low byte of the version only.
HeaderOkLowByte(magic, version) ==
    magic = Magic /\ version.ok /\ (version.val % 256) \in Versions

\* parse raises on a wrong magic, a short or a wrong version.
HeaderOk(magic, version) ==
    magic = Magic /\ version.ok /\ version.val \in Versions

\* fh.tell() once the header is read or refused: the bytes of the magic
\* that were there, and those of the version when the magic was right.
HeaderRead(f) ==
    LET magic == Read(f, 0, 4)
    IN  IF magic # Magic THEN Len(magic) ELSE 4 + Len(Read(f, 4, 4))

ReadHeader ==
    /\ pc = "header"
    /\ LET magic   == Read(fh, 0, 4)
           version == read_uint32(fh, 4)
       IN  IF HeaderOk(magic, version)
           THEN pc' = "commands" /\ pos' = 8
           ELSE pc' = "error" /\ pos' = HeaderRead(fh)
    /\ UNCHANGED <<log, fh, found, tabs, windows, groups, active_window,
                   result, count>>

\* The number of bytes fh.read(size) is asked for: the declared size less
\* the type byte.
PayloadSize(cmd_data) == LittleEndian(cmd_data) - 1

\* One turn of the while loop on the file f, read from offset at:
\* [next, at, st].
ReadRecord(f, st, at) ==
    LET cmd_data == Read(f, at, 2)
        size     == PayloadSize(cmd_data)
        cmd_type == read_uint8(f, at + 2)
        data     == Read(f, at + 3, size)
        r        == Dispatch(st, cmd_type.val, data)
    IN  IF Len(cmd_data) < 2
            THEN [next |-> "materialize", at |-> at + Len(cmd_data), st |-> st]
        ELSE IF ~cmd_type.ok
            THEN [next |-> "error", at |-> at + 2, st |-> st]
        ELSE IF ~r.ok
            THEN [next |-> "error", at |-> at + 3 + Len(data), st |-> st]
        ELSE [next |-> "commands", at |-> at + 3 + Len(data), st |-> r.st]

ReadCommand ==
    /\ pc = "commands"
    /\ LET r == ReadRecord(fh, Store, pos)
       IN  /\ pc' = r.next
           /\ pos' = r.at
           /\ tabs' = r.st.tabs
           /\ windows' = r.st.windows
           /\ groups' = r.st.groups
           /\ active_window' = r.st.active_window
    /\ UNCHANGED <<log, fh, found, result, count>>

Materialize ==
    /\ pc = "materialize"
    /\ tabs' = SortHistories(tabs)
    /\ windows' = Organize(windows, tabs)
    /\ result' = Result(groups, windows', active_window)
    /\ pc' = "done"
    /\ UNCHANGED <<log, fh, found, pos, groups, active_window, count>>

\* The try / except Exception of get_tab_count.
GetTabCount ==
    /\ pc \in {"done", "error"}
    /\ count' = IF pc = "done" THEN total_tabs(result.windows) ELSE 0
    /\ pc' = "returned"
    /\ UNCHANGED <<log, fh, found, pos, tabs, windows, groups, active_window,
                   result>>

\* parse as a function of the file's bytes: the same steps, run to the end.
RECURSIVE Replay(_, _, _)
Replay(f, st, at) ==
    LET r == ReadRecord(f, st, at)
    IN  IF r.next = "commands" THEN Replay(f, r.st, r.at) ELSE r

EmptyStore == [tabs |-> <<>>, windows |-> <<>>, groups |-> <<>>,
               active_window |-> None]

parse(f) ==
    IF ~HeaderOk(Read(f, 0, 4), read_uint32(f, 4)) THEN NoResult
    ELSE LET r == Replay(f, EmptyStore, 8)
         IN  IF r.next = "error" THEN NoResult
             ELSE Result(r.st.groups, Organize(r.st.windows, r.st.tabs),
                         r.st.active_window)

Next == GetSessionFile \/ ReadHeader \/ ReadCommand \/ Materialize
            \/ GetTabCount

---------------------------------------------------------------------------
(* Session files.  A log is a sequence of commands; the file written from  *)
(* it is the header followed by one record per command, laid out as the    *)
(* handlers read them.  A command is [op, ...fields]; a command with a     *)
(* payload field is written with exactly those payload bytes.              *)

U16(n) == <<n % 256, (n \div 256) % 256>>

U32(n) == <<n % 256, (n \div 256) % 256, (n \div 65536) % 256,
            (n \div 16777216) % 256>>

U64(n) == U32(n) \o U32(0)

Padding(n) == [i \in 1..(PadTo4(n) - n) |-> 0]

\* A str of one-byte characters, as read_string reads it.
PickleString(str) == U32(Len(str)) \o str \o Padding(Len(str))

RECURSIVE Utf16(_)
Utf16(str) == IF str = <<>> THEN <<>> ELSE U16(Head(str)) \o Utf16(Tail(str))

\* A str of 16-bit characters, as read_string16 reads it.
PickleString16(str) ==
    U32(Len(str)) \o Utf16(str) \o Padding(2 * Len(str))

CmdUpdateTabNavigation(id, idx, url, title) ==
    [op |-> COMMAND_UPDATE_TAB_NAVIGATION, id |-> id, idx |-> idx,
     url |-> url, title |-> title]

CmdSetSelectedTabInIndex(id, idx) ==
    [op |-> COMMAND_SET_SELECTED_TAB_IN_INDEX, id |-> id, idx |-> idx]

CmdSetTabGroupMetadata2(high, low, name) ==
    [op |-> COMMAND_SET_TAB_GROUP_METADATA2, high |-> high, low |-> low,
     name |-> name]

CmdSetTabGroup(id, high, low) ==
    [op |-> COMMAND_SET_TAB_GROUP, id |-> id, high |-> high, low |-> low]

CmdSetTabWindow(win, id) ==
    [op |-> COMMAND_SET_TAB_WINDOW, win |-> win, id |-> id]

CmdWindowClosed(id) == [op |-> COMMAND_WINDOW_CLOSED, id |-> id]

CmdTabClosed(id) == [op |-> COMMAND_TAB_CLOSED, id |-> id]

CmdSetTabIndexInWindow(id, idx) ==
    [op |-> COMMAND_SET_TAB_INDEX_IN_WINDOW, id |-> id, idx |-> idx]

CmdSetActiveWindow(id) == [op |-> COMMAND_SET_ACTIVE_WINDOW, id |-> id]

CmdSetSelectedNavigationIndex(id, idx) ==
    [op |-> COMMAND_SET_SELECTED_NAVIGATION_INDEX, id |-> id, idx |-> idx]

\* A record of any type with any payload bytes.
CmdRaw(type, payload) == [op |-> type, payload |-> payload]

IsRaw(c) == "payload" \in DOMAIN c

Payload(c) ==
    IF IsRaw(c) THEN c.payload
    ELSE IF c.op = COMMAND_UPDATE_TAB_NAVIGATION THEN
        LET body == U32(c.id) \o U32(c.idx) \o PickleString(c.url)
                    \o PickleString16(c.title)
        IN  U32(Len(body)) \o body
    ELSE IF c.op = COMMAND_SET_TAB_GROUP_METADATA2 THEN
        LET body == U64(c.high) \o U64(c.low) \o PickleString16(c.name)
        IN  U32(Len(body)) \o body
    ELSE IF c.op = COMMAND_SET_TAB_GROUP THEN
        U32(c.id) \o U32(0) \o U64(c.high) \o U64(c.low)
    ELSE IF c.op = COMMAND_SET_TAB_WINDOW THEN U32(c.win) \o U32(c.id)
    ELSE IF c.op \in {COMMAND_WINDOW_CLOSED, COMMAND_TAB_CLOSED,
                      COMMAND_SET_ACTIVE_WINDOW} THEN U32(c.id)
    ELSE U32(c.id) \o U32(c.idx)

\* A record written with the size field given, whatever its payload.
CmdSized(size, type, payload) ==
    [op |-> type, payload |-> payload, size |-> size]

\* u16 size (the type byte included), u8 type, payload.
Record(c) ==
    U16(IF "size" \in DOMAIN c THEN c.size ELSE Len(Payload(c)) + 1)
    \o <<c.op>> \o Payload(c)

RECURSIVE Records(_)
Records(l) == IF l = <<>> THEN <<>> ELSE Record(Head(l)) \o Records(Tail(l))

Header(version) == Magic \o U32(version)

File(header, l) == header \o Records(l)

\* The logs of at most n commands of the set cmds.
Logs(cmds, n) == UNION {[1..k -> cmds] : k \in 0..n}

\* parse has not started: the file is chosen, nothing is read.
Start(f, l, there) ==
    /\ log = l
    /\ fh = f
    /\ found = there
    /\ pos = 0
    /\ pc = "start"
    /\ tabs = <<>>
    /\ windows = <<>>
    /\ groups = <<>>
    /\ active_window = None
    /\ result = NoResult
    /\ count = None

---------------------------------------------------------------------------
(* Spec: logs of the commands that place, order, close and select tabs    *)
(* and windows, in a well-formed file.                                     *)

MaxRecords == 3

TabIds == {1, 2}

WinIds == {0, 1, 2}

Idxs == {0, 1}

Commands ==
    {CmdTabClosed(t) : t \in TabIds}
    \cup {CmdSetTabIndexInWindow(t, i) : t \in TabIds, i \in Idxs}
    \cup {CmdSetTabWindow(w, t) : w \in WinIds, t \in TabIds}
    \cup {CmdSetSelectedTabInIndex(w, 1) : w \in WinIds}
    \cup {CmdWindowClosed(w) : w \in WinIds}
    \cup {CmdSetActiveWindow(w) : w \in WinIds}

Init ==
    \E l \in Logs(Commands, MaxRecords) : Start(File(Header(1), l), l, TRUE)

Spec == Init /\ [][Next]_vars

---------------------------------------------------------------------------
(* SpecSelect: longer logs of the commands that decide which tab of a      *)
(* window is the active one: the tabs of window 0 are closed, ordered and  *)
(* selected by index.                                                      *)

MaxSelectRecords == 4

SelectTabIds == {1, 2, 3}

SelectCommands ==
    {CmdTabClosed(t) : t \in SelectTabIds}
    \cup {CmdSetTabIndexInWindow(t, i) : t \in SelectTabIds, i \in Idxs}
    \cup {CmdSetSelectedTabInIndex(0, i) : i \in Idxs}

InitSelect ==
    \E l \in Logs(SelectCommands, MaxSelectRecords) :
        Start(File(Header(1), l), l, TRUE)

SpecSelect == InitSelect /\ [][Next]_vars

---------------------------------------------------------------------------
(* SpecNav: logs that build and select the navigation history of a tab.    *)

MaxNavRecords == 4

HistIdxs == {0, 1, 2}

\* (url, title): "a" / "A" and "bc" / "éB", the second with padding.
Pages == {[url |-> <<97>>, title |-> <<65>>],
          [url |-> <<98, 99>>, title |-> <<233, 66>>]}

NavCommands ==
    {CmdUpdateTabNavigation(1, h, p.url, p.title) : h \in HistIdxs, p \in Pages}
    \cup {CmdSetSelectedNavigationIndex(1, h) : h \in HistIdxs}

InitNav ==
    \E l \in Logs(NavCommands, MaxNavRecords) :
        Start(File(Header(3), l), l, TRUE)

SpecNav == InitNav /\ [][Next]_vars

---------------------------------------------------------------------------
(* SpecBytes: files with good and bad headers, records of types parse      *)
(* handles and of types it does not, files cut off at any byte, and the    *)
(* case of no session file at all.                                         *)

MaxBytesRecords == 3

BytesCommands ==
    {CmdTabClosed(1), CmdSetTabWindow(1, 2), CmdWindowClosed(1),
     CmdRaw(200, <<>>), CmdRaw(200, U32(1) \o U32(2)),
     CmdRaw(COMMAND_LAST_ACTIVE_TIME, U32(1)),
     CmdRaw(COMMAND_TAB_CLOSED, U32(3) \o <<9, 9>>)}

\* Versions 1 and 3, and headers parse must refuse: another magic,
\* versions 0 and 2, and versions whose low byte alone is 1 or 3.
Headers ==
    {Header(1), Header(3), <<88, 78, 83, 83>> \o U32(1), Header(0),
     Header(2), Header(257), Header(16777219)}

InitBytes ==
    \/ \E l \in Logs(BytesCommands, MaxBytesRecords) : \E h \in Headers :
          Start(File(h, l), l, TRUE)
    \/ \E l \in Logs(BytesCommands, MaxBytesRecords) :
          \E n \in 0..(Len(File(Header(1), l)) - 1) :
              Start(Take(File(Header(1), l), n), l, TRUE)
    \/ Start(<<>>, <<>>, FALSE)

SpecBytes == InitBytes /\ [][Next]_vars

---------------------------------------------------------------------------
(* SpecGroup: logs that bind tabs to groups and name the groups.  The      *)
(* pairs (0x1, 0x23) and (0x12, 0x3) differ and have the same hex          *)
(* concatenation "123"; (0x1, 0x3) shares a half with each.                *)

MaxGroupRecords == 3

GroupIds == {<<1, 35>>, <<18, 3>>, <<1, 3>>}

GroupNames == {<<65>>, <<66>>}

GroupCommands ==
    {CmdSetTabGroup(t, g[1], g[2]) : t \in TabIds, g \in GroupIds}
    \cup {CmdSetTabGroupMetadata2(g[1], g[2], n) :
             g \in GroupIds, n \in GroupNames}

InitGroup ==
    \E l \in Logs(GroupCommands, MaxGroupRecords) :
        Start(File(Header(3), l), l, TRUE)

SpecGroup == InitGroup /\ [][Next]_vars

---------------------------------------------------------------------------
(* SpecFields: well-formed logs with one command of every type parse       *)
(* handles, in which one record's payload is cut at any byte or has bytes  *)
(* added behind its fields.                                                *)

MaxFieldRecords == 2

\* "abcde" and a title with a character above 255: both padded.
FieldCommands ==
    {CmdUpdateTabNavigation(1, 0, <<97, 98, 99, 100, 101>>, <<65, 20013, 67>>),
     CmdSetSelectedTabInIndex(1, 1),
     CmdSetTabGroupMetadata2(1, 3, <<65>>),
     CmdSetTabGroup(1, 1, 3),
     CmdSetTabWindow(1, 1),
     CmdWindowClosed(1),
     CmdTabClosed(1),
     CmdSetTabIndexInWindow(1, 1),
     CmdSetActiveWindow(1),
     CmdSetSelectedNavigationIndex(1, 0)}

\* The record of command c written with the payload bytes given.
CmdAltered(c, payload) == [op |-> c.op, payload |-> payload, of |-> c]

\* c with its payload cut at every byte, and with three bytes added.
Alterations(c) ==
    {CmdAltered(c, Take(Payload(c), n)) : n \in 0..(Len(Payload(c)) - 1)}
    \cup {CmdAltered(c, Payload(c) \o <<7, 7, 7>>)}

InitFields ==
    \E l \in Logs(FieldCommands, MaxFieldRecords) :
        \/ Start(File(Header(1), l), l, TRUE)
        \/ \E i \in DOMAIN l : \E c \in Alterations(l[i]) :
              Start(File(Header(1), [l EXCEPT ![i] = c]),
                    [l EXCEPT ![i] = c], TRUE)

SpecFields == InitFields /\ [][Next]_vars

---------------------------------------------------------------------------
(* SpecClose: logs that close tab 1 and window 1 and go on naming them.    *)

MaxCloseRecords == 4

CloseCommands ==
    {CmdTabClosed(1), CmdWindowClosed(1), CmdSetTabWindow(1, 1),
     CmdUpdateTabNavigation(1, 0, <<97>>, <<65>>),
     CmdSetTabIndexInWindow(1, 1), CmdSetActiveWindow(1),
     CmdSetSelectedTabInIndex(1, 1)}

InitClose ==
    \E l \in Logs(CloseCommands, MaxCloseRecords) :
        Start(File(Header(1), l), l, TRUE)

SpecClose == InitClose /\ [][Next]_vars

---------------------------------------------------------------------------
(* SpecStrings: UpdateTabNavigation records with urls of 0 to 5 bytes and  *)
(* titles of 0 to 3 units, whole, cut at any byte, or extended.            *)

MaxStringRecords == 1

Urls == {SubSeq(<<97, 98, 99, 100, 101>>, 1, n) : n \in 0..5}

Titles == {SubSeq(<<65, 20013, 67>>, 1, n) : n \in 0..3}

StringCommands ==
    {CmdUpdateTabNavigation(1, 0, u, t) : u \in Urls, t \in Titles}

InitStrings ==
    \E l \in Logs(StringCommands, MaxStringRecords) :
        \/ Start(File(Header(1), l), l, TRUE)
        \/ \E i \in DOMAIN l : \E c \in Alterations(l[i]) :
              Start(File(Header(1), [l EXCEPT ![i] = c]),
                    [l EXCEPT ![i] = c], TRUE)

SpecStrings == InitStrings /\ [][Next]_vars

---------------------------------------------------------------------------
(* SpecFrames: records that declare the sizes 0 and 1 among well-formed    *)
(* ones.                                                                   *)

MaxFrameRecords == 3

FrameCommands ==
    {CmdTabClosed(1), CmdTabClosed(2), CmdSetTabWindow(1, 1),
     CmdSized(0, 200, <<>>), CmdSized(0, COMMAND_TAB_CLOSED, <<>>),
     CmdSized(1, 200, <<>>), CmdSized(1, COMMAND_TAB_CLOSED, <<>>)}

InitFrames ==
    \E l \in Logs(FrameCommands, MaxFrameRecords) :
        Start(File(Header(1), l), l, TRUE)

SpecFrames == InitFrames /\ [][Next]_vars

---------------------------------------------------------------------------
(* What the log says, read off the commands themselves.                    *)

Returned == result # NoResult

ParseRaised == result = NoResult /\ pc \in {"error", "returned"} /\ found

TabOps == {COMMAND_UPDATE_TAB_NAVIGATION, COMMAND_SET_TAB_GROUP,
           COMMAND_SET_TAB_WINDOW, COMMAND_TAB_CLOSED,
           COMMAND_SET_TAB_INDEX_IN_WINDOW,
           COMMAND_SET_SELECTED_NAVIGATION_INDEX}

WindowOps == {COMMAND_SET_SELECTED_TAB_IN_INDEX, COMMAND_WINDOW_CLOSED,
              COMMAND_SET_ACTIVE_WINDOW}

\* The positions of the log's commands of type op that name id.
Naming(l, op, id) ==
    {i \in DOMAIN l : ~IsRaw(l[i]) /\ l[i].op = op /\ l[i].id = id}

Max(S) == CHOOSE x \in S : \A y \in S : y <= x

\* The last command of type op naming id, when there is one.
LastNaming(l, op, id) == l[Max(Naming(l, op, id))]

TabWasClosed(l, id) == Naming(l, COMMAND_TAB_CLOSED, id) # {}

\* The active_tab_idx the log gives window id.
SelectedIdx(l, id) ==
    IF Naming(l, COMMAND_SET_SELECTED_TAB_IN_INDEX, id) = {} THEN 0
    ELSE LastNaming(l, COMMAND_SET_SELECTED_TAB_IN_INDEX, id).idx

\* The window and the tab a ResultTab was made from.
RWindows == DOMAIN result.windows

RTabs(w) == DOMAIN result.windows[w].tabs

RTab(w, k) == result.windows[w].tabs[k]

TabOf(w, k) == windows[w].tabs[k]

\* The tabs before position k of window w that are not deleted.
VisibleBefore(w, k) == {j \in 1..(k - 1) : ~RTab(w, j).deleted}

Visible(w) == {j \in RTabs(w) : ~RTab(w, j).deleted}

---------------------------------------------------------------------------
(* The claims.                                                             *)

\* C1: in the Result, every window has at most one tab with active true,
\* deleted tabs counted too.
C1_AtMostOneActiveTab ==
    Returned =>
        \A w \in RWindows :
            Cardinality({k \in RTabs(w) : RTab(w, k).active}) <= 1

\* C2: a tab the log closed with TabClosed is materialized with active
\* false, whatever its position and its window's active_tab_idx.
C2_ClosedTabNotActive ==
    Returned =>
        \A w \in RWindows : \A k \in RTabs(w) :
            TabWasClosed(log, TabOf(w, k).id) => ~RTab(w, k).active

\* C3: a tab that is not deleted is active exactly when the number of tabs
\* not deleted before it in its window equals the active_tab_idx the log
\* gives the window; so none is active when that index is at least the
\* number of tabs not deleted.
C3_ActiveIffVisibleIndex ==
    Returned =>
        \A w \in RWindows :
            LET selected == SelectedIdx(log, windows[w].id)
            IN  /\ \A k \in RTabs(w) :
                     ~RTab(w, k).deleted =>
                        (RTab(w, k).active
                            <=> Cardinality(VisibleBefore(w, k)) = selected)
                /\ selected >= Cardinality(Visible(w)) =>
                     \A k \in Visible(w) : ~RTab(w, k).active

\* C3 happens: the second tab not deleted is the active one, behind a
\* deleted tab that did not advance the counter.
C3_Witness ==
    /\ Returned
    /\ \E w \in RWindows : \E k \in RTabs(w) :
          /\ RTab(w, k).active /\ ~RTab(w, k).deleted
          /\ \E j \in 1..(k - 1) : RTab(w, j).deleted
          /\ Cardinality(VisibleBefore(w, k)) = 1

\* C4 as stated: the Result has one window for every window id that a
\* SetTabWindow, SetSelectedTabInIndex, WindowClosed or SetActiveWindow
\* names, and window 0 when some tab is never assigned a window.
WindowsNamed(l) ==
    {l[i].id : i \in {j \in DOMAIN l : ~IsRaw(l[j]) /\ l[j].op \in WindowOps}}

TabsNamed(l) ==
    {l[i].id : i \in {j \in DOMAIN l : ~IsRaw(l[j]) /\ l[j].op \in TabOps}}

WindowsOfSetTabWindow(l) ==
    {l[i].win : i \in {j \in DOMAIN l :
                          ~IsRaw(l[j]) /\ l[j].op = COMMAND_SET_TAB_WINDOW}}

NeverAssigned(l) ==
    {t \in TabsNamed(l) : Naming(l, COMMAND_SET_TAB_WINDOW, t) = {}}

C4_OneWindowPerReferencedId ==
    Returned =>
        Len(result.windows)
            = Cardinality(WindowsNamed(log) \cup WindowsOfSetTabWindow(log)
                          \cup (IF NeverAssigned(log) # {} THEN {0} ELSE {}))

\* The window a tab ends in: the one its last SetTabWindow names, else 0.
FinalWindow(l, t) ==
    IF Naming(l, COMMAND_SET_TAB_WINDOW, t) = {} THEN 0
    ELSE LastNaming(l, COMMAND_SET_TAB_WINDOW, t).win

\* C4, amended: the Result has one window for every window id that a
\* SetSelectedTabInIndex, WindowClosed or SetActiveWindow names or that is
\* the window some tab ends in (the window of the tab's last SetTabWindow,
\* or 0); a window id named only by a SetTabWindow that a later one
\* overrides gets no window.  The empty log yields no window.
C4_OneWindowPerCreatedId ==
    Returned =>
        /\ Len(result.windows)
             = Cardinality(WindowsNamed(log)
                           \cup {FinalWindow(log, t) : t \in TabsNamed(log)})
        /\ log = <<>> => result.windows = <<>>

\* C4 happens: a SetTabWindow names a window that no tab ends in and no
\* window command names, beside two windows that are in the Result.
C4_Witness ==
    /\ Returned
    /\ Len(result.windows) = 2
    /\ \E w \in WindowsOfSetTabWindow(log) :
          /\ w \notin WindowsNamed(log)
          /\ \A t \in TabsNamed(log) : FinalWindow(log, t) # w

\* The values of s without repetitions, in the order they first occur.
RECURSIVE Firsts(_)
Firsts(s) ==
    IF s = <<>> THEN <<>>
    ELSE LET f == Firsts(SubSeq(s, 1, Len(s) - 1))
         IN  IF \E i \in DOMAIN f : f[i] = s[Len(s)] THEN f
             ELSE Append(f, s[Len(s)])

IsWindowCmd(c) == ~IsRaw(c) /\ c.op \in WindowOps

IsTabCmd(c) == ~IsRaw(c) /\ c.op \in TabOps

IdsOf(cmds) == [i \in DOMAIN cmds |-> cmds[i].id]

\* The window ids in the order the log's window commands name them, then
\* the windows the tabs end in, in the order the tabs are first named.
WindowOrder(l) ==
    LET named == IdsOf(SelectSeq(l, IsWindowCmd))
        tabIds == Firsts(IdsOf(SelectSeq(l, IsTabCmd)))
    IN  Firsts(named \o [i \in DOMAIN tabIds |-> FinalWindow(l, tabIds[i])])

\* C9: the windows of the Result come in the order in which the windows
\* were created: those of SetSelectedTabInIndex, WindowClosed and
\* SetActiveWindow in the order of these commands, then those created for
\* the tabs' windows, in the order the tabs were first referenced.
C9_WindowsInCreationOrder ==
    Returned =>
        /\ Len(result.windows) = Len(WindowOrder(log))
        /\ \A w \in RWindows :
              LET id == WindowOrder(log)[w]
              IN  /\ windows[w].id = id
                  /\ result.windows[w].deleted
                        = (Naming(log, COMMAND_WINDOW_CLOSED, id) # {})
                  /\ {TabOf(w, k).id : k \in RTabs(w)}
                        = {t \in TabsNamed(log) : FinalWindow(log, t) = id}

\* C9 happens: a window made by a window command comes before the window
\* of a tab that the log names earlier, and its id is the larger one.
C9_Witness ==
    /\ Returned
    /\ Len(result.windows) = 2
    /\ windows[1].id > windows[2].id
    /\ result.windows[1].tabs = <<>>
    /\ result.windows[2].tabs # <<>>
    /\ IsTabCmd(log[1])

\* The history indexes the log gives tab t, and the last record of each.
HistoryIdxs(l, t) ==
    {l[i].idx : i \in Naming(l, COMMAND_UPDATE_TAB_NAVIGATION, t)}

LastNavigation(l, t, h) ==
    l[Max({i \in Naming(l, COMMAND_UPDATE_TAB_NAVIGATION, t) : l[i].idx = h})]

CurrentIdx(l, t) ==
    IF Naming(l, COMMAND_SET_SELECTED_NAVIGATION_INDEX, t) = {} THEN 0
    ELSE LastNaming(l, COMMAND_SET_SELECTED_NAVIGATION_INDEX, t).idx

\* The numbers of S in ascending order.
Ascending(S) ==
    [p \in 1..Cardinality(S) |->
        CHOOSE h \in S : Cardinality({x \in S : x < h}) = p - 1]

PagesOf(l, t, S) ==
    [p \in 1..Cardinality(S) |->
        [url   |-> LastNavigation(l, t, Ascending(S)[p]).url,
         title |-> LastNavigation(l, t, Ascending(S)[p]).title]]

\* C5: when the tab's current_history_idx is the idx of one of its history
\* entries, url and title are that entry's and the history is the entries
\* with idx up to it, ascending; when it is not, the history is all the
\* entries, ascending, and url and title are empty.
C5_CurrentEntryAndHistory ==
    Returned =>
        \A w \in RWindows : \A k \in RTabs(w) :
            LET t   == TabOf(w, k).id
                H   == HistoryIdxs(log, t)
                cur == CurrentIdx(log, t)
            IN  IF cur \in H
                THEN /\ RTab(w, k).url = LastNavigation(log, t, cur).url
                     /\ RTab(w, k).title = LastNavigation(log, t, cur).title
                     /\ RTab(w, k).history
                          = PagesOf(log, t, {h \in H : h <= cur})
                ELSE /\ RTab(w, k).url = <<>>
                     /\ RTab(w, k).title = <<>>
                     /\ RTab(w, k).history = PagesOf(log, t, H)

\* C5 happens: the current entry has entries on both sides, written to
\* the log out of order, and the history stops at it.
C5_Witness ==
    /\ Returned
    /\ \E w \in RWindows : \E k \in RTabs(w) :
          LET t == TabOf(w, k).id
              H == HistoryIdxs(log, t)
          IN  /\ CurrentIdx(log, t) = 1
              /\ H = {0, 1, 2}
              /\ log[1].idx = 2
              /\ Len(RTab(w, k).history) = 2
              /\ RTab(w, k).url # <<>>

\* C5 happens, no entry matching: all the history, no url.
C5_WitnessNoMatch ==
    /\ Returned
    /\ \E w \in RWindows : \E k \in RTabs(w) :
          /\ CurrentIdx(log, TabOf(w, k).id) = 1
          /\ HistoryIdxs(log, TabOf(w, k).id) = {0, 2}
          /\ Len(RTab(w, k).history) = 2
          /\ RTab(w, k).url = <<>>

\* The file is the whole log behind its header, or a cut of it.
Whole == fh = File(Take(fh, 8), log)

Finished == pc \in {"done", "error", "returned"}

HandledOps == TabOps \cup WindowOps \cup {COMMAND_SET_TAB_GROUP_METADATA2}

IsHandled(c) == c.op \in HandledOps

\* The number of records that lie before offset n of the file.
RecordsBefore(n) ==
    CHOOSE k \in 0..Len(log) :
        /\ Len(File(Header(1), SubSeq(log, 1, k))) <= n
        /\ k < Len(log) => Len(File(Header(1), SubSeq(log, 1, k + 1))) > n

AtBoundary(n) ==
    \E k \in 0..Len(log) : Len(File(Header(1), SubSeq(log, 1, k))) = n

\* C6: records of a type parse does not handle (200, and 21) change
\* nothing: after each record the tables are those of the log read so far
\* without these records, and the Result is that of the file without them.
C6_UnhandledRecordsChangeNothing ==
    (found /\ Whole) =>
        /\ (pc = "commands" /\ AtBoundary(pos)) =>
              Store = Replay(File(Take(fh, 8),
                                  SelectSeq(SubSeq(log, 1, RecordsBefore(pos)),
                                            IsHandled)),
                             EmptyStore, 8).st
        /\ Finished =>
              result = parse(File(Take(fh, 8), SelectSeq(log, IsHandled)))

\* C6 happens: a Result from a log with a record of type 200 and one of
\* type 21 with payloads, the second between two handled records.
C6_Witness ==
    /\ Returned /\ Whole /\ Len(log) = 3
    /\ \E i \in DOMAIN log : log[i].op = 200 /\ Payload(log[i]) # <<>>
    /\ log[2].op = COMMAND_LAST_ACTIVE_TIME
    /\ IsHandled(log[3])
    /\ Len(result.windows) >= 1

\* C7: a file whose first 4 bytes are not "SNSS" or whose version is not 1
\* or 3 makes parse fail without a Result, whatever follows the header;
\* a good header with nothing behind it yields a Result without windows.
GoodHeader ==
    /\ Len(fh) >= 8
    /\ SubSeq(fh, 1, 4) = <<83, 78, 83, 83>>
    /\ SubSeq(fh, 5, 8) \in {<<1, 0, 0, 0>>, <<3, 0, 0, 0>>}

C7_HeaderValidation ==
    (found /\ pc \notin {"start", "header"}) =>
        /\ ~GoodHeader =>
              /\ ParseRaised
              /\ Store = EmptyStore
        /\ (GoodHeader /\ Len(fh) = 8 /\ Finished) =>
              result = [windows |-> <<>>]

\* C7 happens: parse has failed on a version that is not 1 or 3 behind the
\* right magic, with records following the header.
C7_Witness ==
    /\ ParseRaised
    /\ Take(fh, 4) = Magic
    /\ Len(fh) > 8
    /\ SubSeq(fh, 5, 8) = <<1, 1, 0, 0>>
    /\ Whole /\ Len(log) >= 1

\* C8: a file cut off behind its header is parsed only when the cut is at
\* the end of a record or one byte behind it, and its Result is then that
\* of the records before the cut; a cut anywhere else (in a type byte or
\* a payload, of any type) makes parse fail without a Result.
C8_TruncationIsFatal ==
    (found /\ ~Whole /\ Len(fh) >= 8 /\ Finished) =>
        IF AtBoundary(Len(fh)) \/ AtBoundary(Len(fh) - 1)
        THEN result = parse(File(Header(1),
                                 SubSeq(log, 1, RecordsBefore(Len(fh)))))
        ELSE ParseRaised

\* C10: get_tab_count returns the number of tabs not deleted in windows
\* not deleted, and 0 when no session file is found or parse fails.
C10_TabCount ==
    pc = "returned" =>
        count = IF Returned
                THEN Cardinality({p \in RWindows \X (0..Len(fh)) :
                                     /\ ~result.windows[p[1]].deleted
                                     /\ p[2] \in RTabs(p[1])
                                     /\ ~RTab(p[1], p[2]).deleted})
                ELSE 0

\* C10 happens: a count of 0 that leaves out a tab never closed, in a
\* closed window.
C10_Witness ==
    /\ pc = "returned" /\ Returned
    /\ \E w \in RWindows : \E k \in RTabs(w) :
          result.windows[w].deleted /\ ~RTab(w, k).deleted
    /\ count = 0

\* C10 happens on failures: no session file, and a file parse fails on.
C10_WitnessFailed ==
    pc = "returned" /\ ~Returned /\ count = 0 /\ found /\ Len(fh) > 8

\* The positions of the log's SetTabGroupMetadata2 naming (high, low).
GroupNaming(l, high, low) ==
    {i \in DOMAIN l : /\ ~IsRaw(l[i])
                      /\ l[i].op = COMMAND_SET_TAB_GROUP_METADATA2
                      /\ l[i].high = high /\ l[i].low = low}

IsBound(l, t) == Naming(l, COMMAND_SET_TAB_GROUP, t) # {}

\* The group name the log gives tab t: that of the last
\* SetTabGroupMetadata2 for the pair of the tab's last SetTabGroup.
NamedGroup(l, t) ==
    IF ~IsBound(l, t) THEN <<>>
    ELSE LET b == LastNaming(l, COMMAND_SET_TAB_GROUP, t)
         IN  IF GroupNaming(l, b.high, b.low) = {} THEN <<>>
             ELSE l[Max(GroupNaming(l, b.high, b.low))].name

\* C11: the group string of a tab is the name of the last
\* SetTabGroupMetadata2 for the (high, low) of the tab's last SetTabGroup,
\* wherever that record stands in the log, before or after the SetTabGroup;
\* it is empty when the tab is not bound or the pair was never named.
C11_GroupNameWhateverTheOrder ==
    Returned =>
        \A w \in RWindows : \A k \in RTabs(w) :
            RTab(w, k).group = NamedGroup(log, TabOf(w, k).id)

\* The (high, low) pairs the log refers to.
PairsReferenced(l) ==
    {<<l[i].high, l[i].low>> :
        i \in {j \in DOMAIN l :
                 ~IsRaw(l[j]) /\ l[j].op \in {COMMAND_SET_TAB_GROUP,
                                              COMMAND_SET_TAB_GROUP_METADATA2}}}

\* The log without the SetTabGroupMetadata2 of the pairs other than
\* (high, low).
WithoutOtherNames(l, high, low) ==
    SelectSeq(l, LAMBDA c :
                    c.op = COMMAND_SET_TAB_GROUP_METADATA2
                        => (c.high = high /\ c.low = low))

\* C17: a group is one (high, low) pair: the store holds one Group for
\* each pair the log refers to, and the group string of a tab bound to a
\* pair is what it is in the log without the SetTabGroupMetadata2 records
\* of all the other pairs.
C17_GroupIsItsPair ==
    Returned =>
        /\ Len(groups) = Cardinality(PairsReferenced(log))
        /\ \A w \in RWindows : \A k \in RTabs(w) :
              IsBound(log, TabOf(w, k).id) =>
                 LET b == LastNaming(log, COMMAND_SET_TAB_GROUP, TabOf(w, k).id)
                     alone == parse(File(Take(fh, 8),
                                         WithoutOtherNames(log, b.high, b.low)))
                 IN  RTab(w, k).group = alone.windows[w].tabs[k].group

\* The position the log gives tab t in its window: the index of its last
\* SetTabIndexInWindow, else 0.
PositionIdx(l, t) ==
    IF Naming(l, COMMAND_SET_TAB_INDEX_IN_WINDOW, t) = {} THEN 0
    ELSE LastNaming(l, COMMAND_SET_TAB_INDEX_IN_WINDOW, t).idx

\* C12: the tabs of a window come in ascending order of the index of their
\* last SetTabIndexInWindow (0 without one), and tabs with the same index
\* in ascending order of their ids, whichever the log names first.
C12_TabsByIdxThenId ==
    Returned =>
        \A w \in RWindows : \A j \in RTabs(w) : \A k \in RTabs(w) :
            j < k =>
                LET a == TabOf(w, j).id
                    b == TabOf(w, k).id
                IN  \/ PositionIdx(log, a) < PositionIdx(log, b)
                    \/ PositionIdx(log, a) = PositionIdx(log, b) /\ a < b

\* The record of the log whose payload was cut or extended, if any.
Altered(l) == {i \in DOMAIN l : "of" \in DOMAIN l[i]}

TooShort(c) == Len(c.payload) < Len(Payload(c.of))

TooLong(c) == Len(c.payload) > Len(Payload(c.of))

\* The end of record i in the file.
EndOfRecord(i) == Len(File(Take(fh, 8), SubSeq(log, 1, i)))

\* C13: a record of a type parse handles whose payload stops before the
\* end of that type's fields makes parse fail: no Result, the tables are
\* those of the records before it (the command is not applied) and nothing
\* is read behind the record's end.  A record with bytes behind its fields
\* gives the Result of the record without them.
C13_FieldsWithinTheRecord ==
    \A i \in Altered(log) :
        /\ TooShort(log[i]) =>
              /\ Finished => ParseRaised
              /\ pc = "error" =>
                    /\ Store = Replay(File(Take(fh, 8), SubSeq(log, 1, i - 1)),
                                      EmptyStore, 8).st
                    /\ pos <= EndOfRecord(i)
        /\ (TooLong(log[i]) /\ Finished) =>
              result = parse(File(Take(fh, 8), [log EXCEPT ![i] = log[i].of]))

\* C13 happens: parse has failed on an UpdateTabNavigation cut inside the
\* bytes of its url, with another record behind it in the file.
C13_Witness ==
    /\ pc = "error"
    /\ Len(log) = 2
    /\ 1 \in Altered(log)
    /\ log[1].op = COMMAND_UPDATE_TAB_NAVIGATION
    /\ Len(log[1].payload) = 18
    /\ pos = EndOfRecord(1)
    /\ pos < Len(fh)

\* C13 happens behind a record that was applied: parse has failed on a
\* SetTabGroupMetadata2 cut inside its name, the tab of the record before
\* it is in the table.
C13_WitnessSecond ==
    /\ pc = "error"
    /\ 2 \in Altered(log)
    /\ log[2].op = COMMAND_SET_TAB_GROUP_METADATA2
    /\ Len(log[2].payload) = 26
    /\ tabs # <<>>

\* C13 happens, bytes behind the fields: the command is applied and so is
\* the record behind it.
C13_WitnessLong ==
    /\ Returned
    /\ Len(log) = 2
    /\ 1 \in Altered(log)
    /\ TooLong(log[1])
    /\ log[1].op = COMMAND_SET_TAB_GROUP_METADATA2
    /\ log[2].op = COMMAND_SET_TAB_GROUP
    /\ \E w \in RWindows : \E k \in RTabs(w) : RTab(w, k).group = <<65>>

\* The number of the records of l that lie within the first n bytes.
RECURSIVE RecordsWithin(_, _)
RecordsWithin(l, n) ==
    IF l = <<>> \/ Len(Payload(Head(l))) + 3 > n THEN 0
    ELSE 1 + RecordsWithin(Tail(l), n - (Len(Payload(Head(l))) + 3))

\* The records parse has replayed so far.
ReadSoFar ==
    IF pc = "commands" THEN SubSeq(log, 1, RecordsWithin(log, pos - 8))
    ELSE log

\* C14: a tab's history holds one item for each hist-idx of the
\* UpdateTabNavigation records replayed so far, never two with the same
\* idx; each item has the url and title of the last of these records for
\* its idx; once materialized, the history ascends strictly by idx.
C14_OneItemPerHistIdx ==
    pc \notin {"start", "header", "error"} =>
        \A i \in DOMAIN tabs :
            LET h == tabs[i].history
                t == tabs[i].id
            IN  /\ \A j \in DOMAIN h : \A k \in DOMAIN h :
                      j # k => h[j].idx # h[k].idx
                /\ {h[j].idx : j \in DOMAIN h} = HistoryIdxs(ReadSoFar, t)
                /\ \A j \in DOMAIN h :
                      /\ h[j].url = LastNavigation(ReadSoFar, t, h[j].idx).url
                      /\ h[j].title
                            = LastNavigation(ReadSoFar, t, h[j].idx).title
                /\ pc \in {"done", "returned"} =>
                      \A j \in DOMAIN h : \A k \in DOMAIN h :
                          j < k => h[j].idx < h[k].idx

\* C14 happens: four UpdateTabNavigation, hist-idx 1 first and then again
\* with another page, hist-idx 0 behind it: two items, 0 before 1.
C14_Witness ==
    /\ pc = "done"
    /\ Len(log) = 4
    /\ \A i \in DOMAIN log : log[i].op = COMMAND_UPDATE_TAB_NAVIGATION
    /\ log[1].idx = 1 /\ log[2].idx = 0 /\ log[3].idx = 1
    /\ log[1].url # log[3].url
    /\ Len(tabs[1].history) = 2
    /\ tabs[1].history[2].url = log[3].url

WindowWasClosed(l, id) == Naming(l, COMMAND_WINDOW_CLOSED, id) # {}

\* One step keeps every deleted flag that is set, and the flags after the
\* step are those of the close commands replayed so far.
DeletedStays ==
    /\ \A i \in DOMAIN tabs :
          tabs[i].deleted =>
             \E j \in DOMAIN tabs' :
                 tabs'[j].id = tabs[i].id /\ tabs'[j].deleted
    /\ \A i \in DOMAIN windows :
          windows[i].deleted =>
             \E j \in DOMAIN windows' :
                 windows'[j].id = windows[i].id /\ windows'[j].deleted
    /\ \A j \in DOMAIN tabs' :
          tabs'[j].deleted = TabWasClosed(ReadSoFar', tabs'[j].id)
    /\ \A j \in DOMAIN windows' :
          windows'[j].deleted = WindowWasClosed(ReadSoFar', windows'[j].id)
    /\ Returned' =>
          \A w \in DOMAIN result'.windows :
              /\ result'.windows[w].deleted
                    = WindowWasClosed(log, windows'[w].id)
              /\ \A k \in DOMAIN result'.windows[w].tabs :
                    result'.windows[w].tabs[k].deleted
                       = TabWasClosed(log, windows'[w].tabs[k].id)

\* C15: the deleted flag of a tab or window, once a TabClosed or
\* WindowClosed for its id is replayed, is true in every later state and
\* in the Result, whatever commands follow for the same id; a tab or
\* window no close command names is not deleted.
C15_DeletedIsMonotone == [][DeletedStays]_vars

\* C15 happens: tab 1 and window 1 are closed first, then the tab is moved
\* to the window and the window is made the active one; both are deleted
\* in the Result.
C15_Witness ==
    /\ Returned
    /\ \E i \in Naming(log, COMMAND_TAB_CLOSED, 1) :
          \E j \in Naming(log, COMMAND_SET_TAB_WINDOW, 1) : i < j
    /\ \E i \in Naming(log, COMMAND_WINDOW_CLOSED, 1) :
          \E j \in Naming(log, COMMAND_SET_ACTIVE_WINDOW, 1) : i < j
    /\ \E w \in RWindows :
          /\ result.windows[w].deleted /\ result.windows[w].active
          /\ \E k \in RTabs(w) : RTab(w, k).deleted

\* C15 happens, nothing closed: a tab and its window that the log names
\* four times are not deleted.
C15_WitnessOpen ==
    /\ Returned
    /\ Len(log) = 4
    /\ ~TabWasClosed(log, 1) /\ ~WindowWasClosed(log, 1)
    /\ \E w \in RWindows :
          /\ windows[w].id = 1
          /\ ~result.windows[w].deleted
          /\ \E k \in RTabs(w) : ~RTab(w, k).deleted

\* ceil(n / 4) * 4
Ceil4(n) == ((n + 3) \div 4) * 4

\* The payload bytes of record c as they are in the file.
Written(c) == IF IsRaw(c) THEN c.payload ELSE Payload(c)

\* The bytes of p from offset a (counted from 0), n of them.
Bytes(p, a, n) == SubSeq(p, a + 1, a + n)

\* Of an UpdateTabNavigation payload p, whose url starts at offset 12: the
\* url's declared size, the offset behind the padded url, the title's
\* declared number of units and the offset behind the padded title.
UrlSize(p) == LittleEndian(Bytes(p, 12, 4))

UrlEnd(p) == 16 + Ceil4(UrlSize(p))

TitleUnits(p) == LittleEndian(Bytes(p, UrlEnd(p), 4))

TitleEnd(p) == UrlEnd(p) + 4 + Ceil4(2 * TitleUnits(p))

\* C16: read_string of a string of declared size S moves the cursor by
\* 4 + ceil(S/4)*4 and returns the first S body bytes, and read_string16
\* of a string of N units moves it by 4 + ceil(2N/4)*4 and returns the N
\* units, whenever they return; so UpdateTabNavigation reads the title's
\* size at the aligned offset behind the padded url and the item gets the
\* url and title that were written.
C16_StringAlignment ==
    /\ \A i \in DOMAIN log :
          log[i].op = COMMAND_UPDATE_TAB_NAVIGATION =>
             LET p == Written(log[i])
                 u == read_string(p, 12)
                 t == read_string16(p, u.at)
             IN  u.ok =>
                   /\ u.at = 12 + 4 + Ceil4(UrlSize(p))
                   /\ Len(u.val) = UrlSize(p)
                   /\ u.val = Bytes(p, 16, UrlSize(p))
                   /\ t.ok =>
                         /\ t.at = UrlEnd(p) + 4 + Ceil4(2 * TitleUnits(p))
                         /\ Len(t.val) = TitleUnits(p)
                         /\ \A n \in 1..TitleUnits(p) :
                               t.val[n] = LittleEndian(
                                   Bytes(p, UrlEnd(p) + 4 + 2 * (n - 1), 2))
    /\ Returned =>
          \A i \in DOMAIN tabs : \A j \in DOMAIN tabs[i].history :
              LET c == LastNavigation(
                           [n \in DOMAIN log |->
                               IF IsRaw(log[n]) THEN log[n].of ELSE log[n]],
                           tabs[i].id, tabs[i].history[j].idx)
              IN  /\ tabs[i].history[j].url = c.url
                  /\ tabs[i].history[j].title = c.title

\* The places (window, position) of the Result, and those holding tab t.
Places == UNION {{<<w, k>> : k \in RTabs(w)} : w \in RWindows}

PlacesOf(t) == {p \in Places : TabOf(p[1], p[2]).id = t}

\* C18: every tab id a tab command names is in the Result once, in the
\* window of the tab's last SetTabWindow, or in window 0 without one; the
\* Result has as many tabs as the log names tab ids, no tab is left in a
\* window an earlier SetTabWindow named.
C18_EachTabOnceInItsFinalWindow ==
    Returned =>
        /\ \A t \in TabsNamed(log) :
              /\ Cardinality(PlacesOf(t)) = 1
              /\ \A p \in PlacesOf(t) :
                    windows[p[1]].id = FinalWindow(log, t)
        /\ Cardinality(Places) = Cardinality(TabsNamed(log))

\* C18 happens: a tab is moved from a window to another, both windows are
\* in the Result, the first without the tab.
C18_Witness ==
    /\ Returned
    /\ \E t \in TabsNamed(log) :
          \E i \in Naming(log, COMMAND_SET_TAB_WINDOW, t) :
             /\ log[i].win # FinalWindow(log, t)
             /\ \E w \in RWindows :
                   /\ windows[w].id = log[i].win
                   /\ result.windows[w].tabs = <<>>
             /\ \E w \in RWindows :
                   /\ windows[w].id = FinalWindow(log, t)
                   /\ Len(result.windows[w].tabs) = 1

\* The positions of the log's SetActiveWindow commands.
Activations(l) ==
    {i \in DOMAIN l : ~IsRaw(l[i]) /\ l[i].op = COMMAND_SET_ACTIVE_WINDOW}

ActiveWindows == {w \in RWindows : result.windows[w].active}

\* C19: at most one window of the Result is active; with a SetActiveWindow
\* in the log it is the window the last one names, deleted or empty as it
\* may be, and without one no window is active.
C19_OneActiveWindow ==
    Returned =>
        /\ Cardinality(ActiveWindows) <= 1
        /\ IF Activations(log) = {} THEN ActiveWindows = {}
           ELSE /\ ActiveWindows # {}
                /\ \A w \in ActiveWindows :
                      windows[w].id = log[Max(Activations(log))].id

\* C19 happens: two SetActiveWindow name two windows, alike in all but
\* their ids and without tabs; only the second is active.
C19_Witness ==
    /\ Returned
    /\ Cardinality(Activations(log)) = 2
    /\ Len(result.windows) = 2
    /\ windows[1].id # windows[2].id
    /\ [windows[1] EXCEPT !.id = 0] = [windows[2] EXCEPT !.id = 0]
    /\ windows[1].tabs = <<>>
    /\ ~result.windows[1].active /\ result.windows[2].active

\* The log's commands applied one after the other, each to the payload
\* bytes of its own record.
RECURSIVE Apply(_, _)
Apply(st, l) ==
    IF l = <<>> THEN Done(st)
    ELSE LET r == Dispatch(st, Head(l).op, Written(Head(l)))
         IN  IF ~r.ok THEN r ELSE Apply(r.st, Tail(l))

\* The offsets of the file at which a record of the log ends.
Boundaries == {EndOfRecord(k) : k \in 0..Len(log)}

\* C20: whatever size a record declares, 0 and 1 included, parse takes its
\* size field, its type byte and its payload and no more (3 bytes at most
\* for size 0): every turn of the loop starts where a record ends, and the
\* outcome is that of the log's commands applied one by one in the order
\* of the file.
C20_FramesAreHonoured ==
    (found /\ Whole) =>
        /\ pc = "commands" => pos \in Boundaries
        /\ Finished =>
              LET e == Apply(EmptyStore, log)
              IN  IF e.ok
                  THEN result = Result(e.st.groups,
                                       Organize(e.st.windows, e.st.tabs),
                                       e.st.active_window)
                  ELSE ParseRaised

=============================================================================
